---------------------------- MODULE Spec2Model ----------------------------
(***************************************************************************)
(* A model of SopsSecretGenerator (main.go): one run of the program reads  *)
(* a generator descriptor, validates it, resolves its envSources and then  *)
(* its fileSources in declaration order (read, decrypt, parse, base64,     *)
(* merge into one map) and assembles the Secret manifest.                  *)
(*                                                                         *)
(* Go strings and byte slices are sequences of one-byte strings; a byte    *)
(* outside printable ASCII is written "xHH" (its hex value).               *)
(***************************************************************************)
EXTENDS Naturals, Sequences, FiniteSets, TLC

VARIABLES
    input,      \* the descriptor file: how it loads, and the SopsSecretGenerator in it
    fs,         \* the file system: [files: path -> stored content, default: every other path]
    pc,         \* where the run stands
    idx,        \* the index of the source the current loop is at (1-based)
    data,       \* the kvMap parseInput allocates and every parser writes to
    err,        \* the error the run returned (NoErr when none)
    stdout,     \* what the run printed: the Secret, once it has one
    reads,      \* every ioutil.ReadFile of a source, in order
    decrypts,   \* every sopsdecrypt.Data call, in order
    runsDone,   \* how many runs of the program have ended before this one
    prev        \* the outcome of the run before this one, once there was one

vars == <<input, fs, pc, idx, data, err, stdout, reads, decrypts, runsDone, prev>>

-----------------------------------------------------------------------------
(* Bounds of the model *)

\* the longest list of sources (envSources and fileSources together) of a descriptor
MaxSources == 3
\* the most chunks a dotenv plaintext is put together from
MaxChunks == 4
\* the most parts a fileSources string is put together from
MaxParts == 3
\* how many times the program is run again on the same inputs
MaxReruns == 1

-----------------------------------------------------------------------------
(* Go's strings, bytes and path packages, on sequences of bytes *)

RECURSIVE Concat(_)
\* the concatenation of a sequence of strings
Concat(parts) == IF parts = <<>> THEN <<>> ELSE Head(parts) \o Concat(Tail(parts))

\* s[from..] (1-based), empty when from is past the end
Drop(s, n) == SubSeq(s, n + 1, Len(s))

Take(s, n) == SubSeq(s, 1, n)

\* strings.HasPrefix
HasPrefix(s, prefix) == Len(s) >= Len(prefix) /\ Take(s, Len(prefix)) = prefix

\* strings.Contains, a wrong way to test an extension
HasInfix(s, suffix) ==
    \E i \in 0..Len(s) : i + Len(suffix) <= Len(s) /\ SubSeq(s, i + 1, i + Len(suffix)) = suffix

\* strings.HasSuffix
HasSuffix(s, suffix) ==
    Len(s) >= Len(suffix) /\ SubSeq(s, Len(s) - Len(suffix) + 1, Len(s)) = suffix

\* the positions of byte c in s
Positions(s, c) == {i \in 1..Len(s) : s[i] = c}

Min(S) == CHOOSE x \in S : \A y \in S : x <= y

Max(S) == CHOOSE x \in S : \A y \in S : x >= y

RECURSIVE Split(_, _)
\* strings.Split(s, sep) for a one-byte sep: all the fields between separators
Split(s, c) ==
    IF Positions(s, c) = {} THEN <<s>>
    ELSE LET i == Min(Positions(s, c)) IN <<Take(s, i - 1)>> \o Split(Drop(s, i), c)

\* strings.SplitN(s, sep, 2): cut at the first separator only
SplitN2(s, c) ==
    IF Positions(s, c) = {} THEN <<s>>
    ELSE LET i == Min(Positions(s, c)) IN <<Take(s, i - 1), Drop(s, i)>>

RECURSIVE TrimRightByte(_, _)
TrimRightByte(s, c) ==
    IF s # <<>> /\ s[Len(s)] = c THEN TrimRightByte(Take(s, Len(s) - 1), c) ELSE s

\* path.Base
Base(p) ==
    IF p = <<>> THEN <<".">>
    ELSE LET stripped == TrimRightByte(p, "/")
             tail == IF Positions(stripped, "/") = {} THEN stripped
                     ELSE Drop(stripped, Max(Positions(stripped, "/")))
         IN  IF tail = <<>> THEN <<"/">> ELSE tail

-----------------------------------------------------------------------------
(* Byte values, UTF-8 and base64 *)

Ascii ==
    << " ", "!", "\"", "#", "$", "%", "&", "'", "(", ")", "*", "+", ",", "-", ".", "/",
       "0", "1", "2", "3", "4", "5", "6", "7", "8", "9", ":", ";", "<", "=", ">", "?",
       "@", "A", "B", "C", "D", "E", "F", "G", "H", "I", "J", "K", "L", "M", "N", "O",
       "P", "Q", "R", "S", "T", "U", "V", "W", "X", "Y", "Z", "[", "x5C", "]", "^", "_",
       "x60", "a", "b", "c", "d", "e", "f", "g", "h", "i", "j", "k", "l", "m", "n", "o",
       "p", "q", "r", "s", "t", "u", "v", "w", "x", "y", "z", "{", "|", "}", "~" >>

\* the bytes written by name
Named ==
    [c \in {"x00", "x01", "x02", "\t", "\n", "\r", "xBB", "xBF", "xEF", "xFE", "xFF"} |->
        CASE c = "x00" -> 0 [] c = "x01" -> 1 [] c = "x02" -> 2
          [] c = "\t" -> 9 [] c = "\n" -> 10 [] c = "\r" -> 13
          [] c = "xBB" -> 187 [] c = "xBF" -> 191 [] c = "xEF" -> 239
          [] c = "xFE" -> 254 [] c = "xFF" -> 255]

OrdTable ==
    [c \in {Ascii[i] : i \in 1..Len(Ascii)} |-> 31 + (CHOOSE i \in 1..Len(Ascii) : Ascii[i] = c)]

\* the value of a byte
Ord(c) == IF c \in DOMAIN Named THEN Named[c] ELSE OrdTable[c]

B64Chars ==
    << "A", "B", "C", "D", "E", "F", "G", "H", "I", "J", "K", "L", "M", "N", "O", "P",
       "Q", "R", "S", "T", "U", "V", "W", "X", "Y", "Z", "a", "b", "c", "d", "e", "f",
       "g", "h", "i", "j", "k", "l", "m", "n", "o", "p", "q", "r", "s", "t", "u", "v",
       "w", "x", "y", "z", "0", "1", "2", "3", "4", "5", "6", "7", "8", "9", "+", "/" >>

RECURSIVE Base64(_)
\* base64.StdEncoding.EncodeToString: 3 bytes to 4 digits, "=" padding
Base64(b) ==
    IF Len(b) = 0 THEN <<>>
    ELSE IF Len(b) = 1 THEN
        LET n == Ord(b[1]) * 65536
        IN  <<B64Chars[(n \div 262144) + 1], B64Chars[((n \div 4096) % 64) + 1], "=", "=">>
    ELSE IF Len(b) = 2 THEN
        LET n == Ord(b[1]) * 65536 + Ord(b[2]) * 256
        IN  <<B64Chars[(n \div 262144) + 1], B64Chars[((n \div 4096) % 64) + 1],
              B64Chars[((n \div 64) % 64) + 1], "=">>
    ELSE
        LET n == Ord(b[1]) * 65536 + Ord(b[2]) * 256 + Ord(b[3])
        IN  <<B64Chars[(n \div 262144) + 1], B64Chars[((n \div 4096) % 64) + 1],
              B64Chars[((n \div 64) % 64) + 1], B64Chars[(n % 64) + 1]>>
            \o Base64(Drop(b, 3))

RECURSIVE Utf8Valid(_)
\* utf8.Valid: one- to four-byte encodings, no surrogates, nothing overlong
Utf8Valid(b) ==
    IF b = <<>> THEN TRUE
    ELSE LET c == Ord(b[1])
             cont(i, lo, hi) == Len(b) >= i /\ Ord(b[i]) >= lo /\ Ord(b[i]) <= hi
         IN  IF c < 128 THEN Utf8Valid(Drop(b, 1))
             ELSE IF c >= 194 /\ c <= 223 THEN cont(2, 128, 191) /\ Utf8Valid(Drop(b, 2))
             ELSE IF c >= 224 /\ c <= 239 THEN
                 /\ cont(2, IF c = 224 THEN 160 ELSE 128, IF c = 237 THEN 159 ELSE 191)
                 /\ cont(3, 128, 191)
                 /\ Utf8Valid(Drop(b, 3))
             ELSE IF c >= 240 /\ c <= 244 THEN
                 /\ cont(2, IF c = 240 THEN 144 ELSE 128, IF c = 244 THEN 143 ELSE 191)
                 /\ cont(3, 128, 191)
                 /\ cont(4, 128, 191)
                 /\ Utf8Valid(Drop(b, 4))
             ELSE FALSE

\* unicode.IsSpace on the one-byte runes: tab, line feed, vertical tab, form feed, carriage return, space
IsSpace(c) == Ord(c) \in {9, 10, 11, 12, 13, 32}

RECURSIVE TrimLeftSpace(_)
\* bytes.TrimLeftFunc(line, unicode.IsSpace)
TrimLeftSpace(line) ==
    IF line # <<>> /\ IsSpace(line[1]) THEN TrimLeftSpace(Tail(line)) ELSE line

-----------------------------------------------------------------------------
(* Errors: nil is the empty chain; errors.Wrapf puts a message in front *)

NoErr == <<>>

\* errors.New / fmt.Errorf: one message, with the text or the number it formats
NewErr(m, t, n) == <<[msg |-> m, text |-> t, num |-> n]>>

\* errors.Wrapf(e, m, t): nil stays nil
Wrapf(e, m, t, n) == IF e = NoErr THEN NoErr ELSE NewErr(m, t, n) \o e

\* errors.Cause: the innermost message
Cause(e) == e[Len(e)].msg

-----------------------------------------------------------------------------
(* kvMap: a Go map from string to string *)

EmptyMap == <<>>

\* an assignment that keeps the value a key already has
PutIfAbsent(m, k, v) == [x \in (DOMAIN m) \cup {k} |-> IF x \in DOMAIN m THEN m[x] ELSE v]

\* m[k] = v
Put(m, k, v) == [x \in (DOMAIN m) \cup {k} |-> IF x = k THEN v ELSE m[x]]

-----------------------------------------------------------------------------
(* The Format Classifier *)

ExtYaml == <<".", "y", "a", "m", "l">>
ExtYml == <<".", "y", "m", "l">>
ExtJson == <<".", "j", "s", "o", "n">>
ExtEnv == <<".", "e", "n", "v">>

\* how the classifier tests an extension
HasExt(path, ext) == HasSuffix(path, ext)

\* sopscommon.IsYAMLFile
IsYAMLFile(path) == HasExt(path, ExtYaml) \/ HasExt(path, ExtYml)

\* sopscommon.IsJSONFile
IsJSONFile(path) == HasExt(path, ExtJson)

\* sopscommon.IsEnvFile
IsEnvFile(path) == HasExt(path, ExtEnv)

formatForPath(path) ==
    IF IsYAMLFile(path) THEN "yaml"
    ELSE IF IsJSONFile(path) THEN "json"
    ELSE IF IsEnvFile(path) THEN "dotenv"
    ELSE "binary"

-----------------------------------------------------------------------------
(* Single-file specification parsing *)

\* a parseFileName without the case for an empty file path
parseFileNameNoPathCheck(source) ==
    LET components == Split(source, "=")
    IN  IF Len(components) = 1 THEN [key |-> Base(source), fn |-> source, err |-> NoErr]
        ELSE IF Len(components) = 2 THEN
            IF components[1] = <<>>
            THEN [key |-> <<>>, fn |-> <<>>,
                  err |-> NewErr("key name for file path %v missing", components[2], 0)]
            ELSE [key |-> components[1], fn |-> components[2], err |-> NoErr]
        ELSE [key |-> <<>>, fn |-> <<>>,
              err |-> NewErr("key names or file paths cannot contain '='", <<>>, 0)]

\* strings.TrimPrefix(s, "=")
TrimPrefixEq(s) == IF HasPrefix(s, <<"=">>) THEN Drop(s, 1) ELSE s

\* strings.TrimSuffix(s, "=")
TrimSuffixEq(s) == IF HasSuffix(s, <<"=">>) THEN Take(s, Len(s) - 1) ELSE s

parseFileName(source) ==
    LET components == Split(source, "=")
    IN  IF Len(components) = 1 THEN [key |-> Base(source), fn |-> source, err |-> NoErr]
        ELSE IF Len(components) = 2 THEN
            IF components[1] = <<>>
            THEN [key |-> <<>>, fn |-> <<>>,
                  err |-> NewErr("key name for file path %v missing", TrimPrefixEq(source), 0)]
            ELSE IF components[2] = <<>>
            THEN [key |-> <<>>, fn |-> <<>>,
                  err |-> NewErr("file path for key name %v missing", TrimSuffixEq(source), 0)]
            ELSE [key |-> components[1], fn |-> components[2], err |-> NoErr]
        ELSE [key |-> <<>>, fn |-> <<>>,
              err |-> NewErr("key names or file paths cannot contain '='", <<>>, 0)]

-----------------------------------------------------------------------------
(* The dotenv parser *)

\* the byte order marks utfbom knows: UTF-32 BE and LE, UTF-8, UTF-16 BE and LE, tried in this order
BOMs ==
    << <<"x00", "x00", "xFE", "xFF">>, <<"xFF", "xFE", "x00", "x00">>,
       <<"xEF", "xBB", "xBF">>, <<"xFE", "xFF">>, <<"xFF", "xFE">> >>

\* utfbom.SkipOnly: the content after a leading byte order mark
SkipOnly(content) ==
    LET hits == {i \in 1..Len(BOMs) : HasPrefix(content, BOMs[i])}
    IN  IF hits = {} THEN content ELSE Drop(content, Len(BOMs[Min(hits)]))

\* bufio's dropCR: a line without its trailing carriage return
dropCR(line) == IF line # <<>> /\ line[Len(line)] = "\r" THEN Take(line, Len(line) - 1) ELSE line

RECURSIVE ScanLines(_)
\* bufio.Scanner with bufio.ScanLines: the lines a content is scanned into; a
\* last line need not end in a line feed, and nothing follows the last line feed
ScanLines(content) ==
    IF content = <<>> THEN <<>>
    ELSE IF Positions(content, "\n") = {} THEN <<dropCR(content)>>
    ELSE LET i == Min(Positions(content, "\n"))
         IN  <<dropCR(Take(content, i - 1))>> \o ScanLines(Drop(content, i))

\* a parseDotEnvLine that looks for '#' before it trims
parseDotEnvLineNoTrim(line, d) ==
    IF ~Utf8Valid(line) THEN [err |-> NewErr("invalid utf8 sequence", <<>>, 0), data |-> d]
    ELSE IF Len(line) = 0 \/ line[1] = "#" THEN [err |-> NoErr, data |-> d]
    ELSE LET pair == SplitN2(line, "=")
         IN  IF Len(pair) # 2
             THEN [err |-> NewErr("requires value: %v", line, 0), data |-> d]
             ELSE [err |-> NoErr, data |-> Put(d, pair[1], Base64(pair[2]))]

\* a parseDotEnvLine that validates only the lines it does not skip
parseDotEnvLineLateUtf8(line, d) ==
    LET trimmed == TrimLeftSpace(line)
    IN  IF Len(trimmed) = 0 \/ trimmed[1] = "#" THEN [err |-> NoErr, data |-> d]
        ELSE IF ~Utf8Valid(line) THEN [err |-> NewErr("invalid utf8 sequence", <<>>, 0), data |-> d]
        ELSE LET pair == SplitN2(trimmed, "=")
             IN  IF Len(pair) # 2
                 THEN [err |-> NewErr("requires value: %v", trimmed, 0), data |-> d]
                 ELSE [err |-> NoErr, data |-> Put(d, pair[1], Base64(pair[2]))]

parseDotEnvLine(line, d) ==
    IF ~Utf8Valid(line) THEN [err |-> NewErr("invalid utf8 sequence", <<>>, 0), data |-> d]
    ELSE LET trimmed == TrimLeftSpace(line)
         IN  IF Len(trimmed) = 0 \/ trimmed[1] = "#" THEN [err |-> NoErr, data |-> d]
             ELSE LET pair == SplitN2(trimmed, "=")
                  IN  IF Len(pair) # 2
                      THEN [err |-> NewErr("requires value: %v", trimmed, 0), data |-> d]
                      ELSE [err |-> NoErr, data |-> Put(d, pair[1], Base64(pair[2]))]

RECURSIVE ScanLoop(_, _, _)
\* the loop of parseDotEnvContent: lines is what is left to scan, lineNum the
\* number of the next line; the map keeps what the lines before a failure stored
ScanLoop(lines, lineNum, d) ==
    IF lines = <<>> THEN [err |-> NoErr, data |-> d]
    ELSE LET r == parseDotEnvLine(Head(lines), d)
         IN  IF r.err # NoErr
             THEN [err |-> Wrapf(r.err, "line %d", <<>>, lineNum), data |-> r.data]
             ELSE ScanLoop(Tail(lines), lineNum + 1, r.data)

parseDotEnvContent(content, d) == ScanLoop(ScanLines(SkipOnly(content)), 0, d)

-----------------------------------------------------------------------------
(* The structured-document parsers. yaml.Unmarshal and json.Unmarshal are *)
(* libraries: what they return is tabled for the documents of the model.  *)

DocYamlAC == <<"A", ":", " ", "x", "\n", "C", ":", " ", "y", "\n">>
DocYamlB == <<"B", ":", " ", "w", "\n">>
DocJsonB == <<"{", "\"", "B", "\"", ":", "\"", "z", "\"", ",", "\"", "D", "\"", ":", "\"", "z", "\"", "}">>
DocJsonBad == <<"{", "\"", "B", "\"", ":", "1", "}">>

\* yaml.Unmarshal(content, &d) into a kvMap
YamlUnmarshal(content) ==
    IF content = DocYamlAC
    THEN [err |-> NoErr, d |-> Put(Put(EmptyMap, <<"A">>, <<"x">>), <<"C">>, <<"y">>)]
    ELSE IF content = DocYamlB
    THEN [err |-> NoErr, d |-> Put(EmptyMap, <<"B">>, <<"w">>)]
    ELSE [err |-> NewErr("yaml: unmarshal errors", <<>>, 0), d |-> EmptyMap]

\* json.Unmarshal(content, &d) into a kvMap
JsonUnmarshal(content) ==
    IF content = DocJsonB
    THEN [err |-> NoErr, d |-> Put(Put(EmptyMap, <<"B">>, <<"z">>), <<"D">>, <<"z">>)]
    ELSE [err |-> NewErr("json: cannot unmarshal", <<>>, 0), d |-> EmptyMap]

\* every order in which a range over a Go map may yield its keys
Orders(keys) ==
    {o \in [1..Cardinality(keys) -> keys] : \A i, j \in DOMAIN o : o[i] = o[j] => i = j}

\* a range loop that returns after its first turn
RangeFirstOnly(d, order, into) ==
    IF order = <<>> THEN into
    ELSE Put(into, Head(order), Base64(d[Head(order)]))

RECURSIVE Range(_, _, _)
\* for k, v := range d { data[k] = base64(v) }, the keys coming in the given order
Range(d, order, into) ==
    IF order = <<>> THEN into
    ELSE Range(d, Tail(order), Put(into, Head(order), Base64(d[Head(order)])))

\* parseYAMLContent and parseJSONContent differ in the library only
parseYAMLContent(content, d, order) ==
    LET u == YamlUnmarshal(content)
    IN  IF u.err # NoErr THEN [err |-> u.err, data |-> d]
        ELSE [err |-> NoErr, data |-> Range(u.d, order, d)]

parseJSONContent(content, d, order) ==
    LET u == JsonUnmarshal(content)
    IN  IF u.err # NoErr THEN [err |-> u.err, data |-> d]
        ELSE [err |-> NoErr, data |-> Range(u.d, order, d)]

\* the keys a structured plaintext unmarshals to (none when it does not)
RangeKeys(format, plain) ==
    IF format = "yaml" THEN DOMAIN YamlUnmarshal(plain).d
    ELSE IF format = "json" THEN DOMAIN JsonUnmarshal(plain).d
    ELSE {}

-----------------------------------------------------------------------------
(* The file system and the decryption oracle *)

\* a stored file: sealed says whether the oracle can decrypt it to plain
File(plain, sealed) == [exists |-> TRUE, sealed |-> sealed, plain |-> plain]

Absent == [exists |-> FALSE, sealed |-> FALSE, plain |-> <<>>]

\* ioutil.ReadFile
ReadFile(path) ==
    LET f == IF path \in DOMAIN fs.files THEN fs.files[path] ELSE fs.default
    IN  IF f.exists THEN [err |-> NoErr, content |-> f]
        ELSE [err |-> NewErr("open %v: no such file or directory", path, 0), content |-> f]

\* sopsdecrypt.Data(content, format)
Decrypt(content, format) ==
    IF content.sealed THEN [err |-> NoErr, plain |-> content.plain]
    ELSE [err |-> NewErr("sops metadata not found", <<>>, 0), plain |-> <<>>]

-----------------------------------------------------------------------------
(* The Descriptor Loader *)

apiVersion == "kustomize.meiqia.com/v1beta1"

kind == "SopsSecretGenerator"

\* a readInput that forgets metadata.name
readInputNoNameCheck(in) ==
    IF in.load = "unreadable" THEN NewErr("open %v: no such file or directory", <<>>, 0)
    ELSE IF in.load = "malformed" THEN NewErr("yaml: unmarshal errors", <<>>, 0)
    ELSE IF in.gen.apiVersion # apiVersion \/ in.gen.kind # kind
    THEN NewErr("input must be apiVersion %s, kind %s", <<>>, 0)
    ELSE NoErr

\* the error readInput returns for a descriptor file (nil when it is accepted)
readInputErr(in) ==
    IF in.load = "unreadable" THEN NewErr("open %v: no such file or directory", <<>>, 0)
    ELSE IF in.load = "malformed" THEN NewErr("yaml: unmarshal errors", <<>>, 0)
    ELSE IF in.gen.apiVersion # apiVersion \/ in.gen.kind # kind
    THEN NewErr("input must be apiVersion %s, kind %s", <<>>, 0)
    ELSE IF in.gen.name = "" THEN NewErr("input must contain metadata.name value", <<>>, 0)
    ELSE NoErr

-----------------------------------------------------------------------------
(* The Source Resolver *)

\* the sources in processing order: every envSources entry, then every fileSources entry
NumSources == Len(input.gen.envs) + Len(input.gen.files)

IsEnvPos(p) == p <= Len(input.gen.envs)

SourceAt(p) ==
    IF IsEnvPos(p) THEN input.gen.envs[p] ELSE input.gen.files[p - Len(input.gen.envs)]

\* where control is once the sources before position p are done (parseInput, lines 164-172)
StageAt(p) ==
    IF p <= Len(input.gen.envs) THEN "parseEnvSources"
    ELSE IF p <= NumSources THEN "parseFileSources"
    ELSE "generateSecret"

\* a parseEnvSource that takes a binary source as one opaque value, as a file source is
parseEnvSourceBinaryValue(source, d, order) ==
    LET rd == ReadFile(source)
        format == formatForPath(source)
        dec == Decrypt(rd.content, format)
        call == <<[path |-> source, format |-> format]>>
    IN  IF rd.err # NoErr
        THEN [err |-> rd.err, data |-> d, read |-> <<source>>, decrypt |-> <<>>]
        ELSE IF dec.err # NoErr
        THEN [err |-> dec.err, data |-> d, read |-> <<source>>, decrypt |-> call]
        ELSE LET r == IF format = "dotenv" THEN parseDotEnvContent(dec.plain, d)
                      ELSE IF format = "yaml" THEN parseYAMLContent(dec.plain, d, order)
                      ELSE IF format = "json" THEN parseJSONContent(dec.plain, d, order)
                      ELSE [err |-> NoErr, data |-> Put(d, Base(source), Base64(dec.plain))]
             IN  [err |-> r.err, data |-> r.data, read |-> <<source>>, decrypt |-> call]

\* parseEnvSource: what it returns, the map as it leaves it, and the calls it made
parseEnvSource(source, d, order) ==
    LET rd == ReadFile(source)
        format == formatForPath(source)
        dec == Decrypt(rd.content, format)
        call == <<[path |-> source, format |-> format]>>
    IN  IF rd.err # NoErr
        THEN [err |-> rd.err, data |-> d, read |-> <<source>>, decrypt |-> <<>>]
        ELSE IF dec.err # NoErr
        THEN [err |-> dec.err, data |-> d, read |-> <<source>>, decrypt |-> call]
        ELSE LET r == IF format = "dotenv" THEN parseDotEnvContent(dec.plain, d)
                      ELSE IF format = "yaml" THEN parseYAMLContent(dec.plain, d, order)
                      ELSE IF format = "json" THEN parseJSONContent(dec.plain, d, order)
                      ELSE [err |-> NewErr("unknown file format, use dotenv, yaml or json", <<>>, 0),
                            data |-> d]
             IN  [err |-> r.err, data |-> r.data, read |-> <<source>>, decrypt |-> call]

\* parseFileSource: what it returns, the map as it leaves it, and the calls it made
parseFileSource(source, d) ==
    LET name == parseFileName(source)
        rd == ReadFile(name.fn)
        dec == Decrypt(rd.content, formatForPath(source))
        call == <<[path |-> name.fn, format |-> formatForPath(source)]>>
    IN  IF name.err # NoErr
        THEN [err |-> name.err, data |-> d, read |-> <<>>, decrypt |-> <<>>]
        ELSE IF rd.err # NoErr
        THEN [err |-> rd.err, data |-> d, read |-> <<name.fn>>, decrypt |-> <<>>]
        ELSE IF dec.err # NoErr
        THEN [err |-> dec.err, data |-> d, read |-> <<name.fn>>, decrypt |-> call]
        ELSE [err |-> NoErr, data |-> Put(d, name.key, Base64(dec.plain)),
              read |-> <<name.fn>>, decrypt |-> call]

\* the keys the range loop of the env source at position p goes over
RangeKeysAt(p) ==
    LET source == SourceAt(p)
        rd == ReadFile(source)
        dec == Decrypt(rd.content, formatForPath(source))
    IN  IF rd.err # NoErr \/ dec.err # NoErr THEN {}
        ELSE RangeKeys(formatForPath(source), dec.plain)

\* a call, as the logs keep it: the position of the source that made it
Logged(calls, p) == [i \in DOMAIN calls |-> [pos |-> p, call |-> calls[i]]]

-----------------------------------------------------------------------------
(* The Manifest Assembler *)

NeedsHash == "kustomize.config.k8s.io/needs-hash"

BehaviorKey == "kustomize.config.k8s.io/behavior"

\* an assembler that sets needs-hash whatever disableNameSuffixHash says
AnnotationsAlwaysHash(gen) ==
    LET hashed == Put(gen.annotations, NeedsHash, "true")
    IN  IF gen.behavior # "" THEN Put(hashed, BehaviorKey, gen.behavior) ELSE hashed

\* the annotations generateSecret computes (lines 108-117)
Annotations(gen) ==
    LET copied == gen.annotations
        hashed == IF ~gen.disableNameSuffixHash THEN Put(copied, NeedsHash, "true") ELSE copied
    IN  IF gen.behavior # "" THEN Put(hashed, BehaviorKey, gen.behavior) ELSE hashed

\* the Secret generateSecret returns
Secret(gen, d) ==
    [apiVersion |-> "v1", kind |-> "Secret",
     name |-> gen.name, namespace |-> gen.namespace, labels |-> gen.labels,
     annotations |-> Annotations(gen), data |-> d, type |-> gen.type]

-----------------------------------------------------------------------------
(* The run *)

\* processSopsSecretGenerator calls readInput; an accepted descriptor goes on
\* to generateSecret and parseInput, a rejected one ends the run with exit code 2
readInput ==
    /\ pc = "readInput"
    /\ err' = readInputErr(input)
    /\ pc' = IF readInputErr(input) = NoErr THEN StageAt(1) ELSE "exit2"
    /\ UNCHANGED <<input, fs, idx, data, stdout, reads, decrypts, runsDone, prev>>

\* a loop whose caller drops the error: the next source is taken up all the same
parseEnvSourcesIgnoreErr ==
    /\ pc = "parseEnvSources"
    /\ \E order \in Orders(RangeKeysAt(idx)) :
        LET r == parseEnvSource(SourceAt(idx), data, order)
        IN  /\ data' = r.data
            /\ reads' = reads \o Logged(r.read, idx)
            /\ decrypts' = decrypts \o Logged(r.decrypt, idx)
            /\ err' = Wrapf(r.err, "env source %v", SourceAt(idx), 0)
            /\ pc' = StageAt(idx + 1)
            /\ idx' = idx + 1
    /\ UNCHANGED <<input, fs, stdout, runsDone, prev>>

\* one turn of the loop of parseEnvSources; an error is wrapped and returned up to main
parseEnvSources ==
    /\ pc = "parseEnvSources"
    /\ \E order \in Orders(RangeKeysAt(idx)) :
        LET r == parseEnvSource(SourceAt(idx), data, order)
        IN  /\ data' = r.data
            /\ reads' = reads \o Logged(r.read, idx)
            /\ decrypts' = decrypts \o Logged(r.decrypt, idx)
            /\ err' = Wrapf(r.err, "env source %v", SourceAt(idx), 0)
            /\ pc' = IF r.err = NoErr THEN StageAt(idx + 1) ELSE "exit2"
            /\ idx' = IF r.err = NoErr THEN idx + 1 ELSE idx
    /\ UNCHANGED <<input, fs, stdout, runsDone, prev>>

\* one turn of the loop of parseFileSources
parseFileSources ==
    /\ pc = "parseFileSources"
    /\ LET r == parseFileSource(SourceAt(idx), data)
       IN  /\ data' = r.data
           /\ reads' = reads \o Logged(r.read, idx)
           /\ decrypts' = decrypts \o Logged(r.decrypt, idx)
           /\ err' = Wrapf(r.err, "file source %v", SourceAt(idx), 0)
           /\ pc' = IF r.err = NoErr THEN StageAt(idx + 1) ELSE "exit2"
           /\ idx' = IF r.err = NoErr THEN idx + 1 ELSE idx
    /\ UNCHANGED <<input, fs, stdout, runsDone, prev>>

\* generateSecret after parseInput returned the map; the Secret is marshalled and printed
generateSecret ==
    /\ pc = "generateSecret"
    /\ stdout' = Append(stdout, Secret(input.gen, data))
    /\ pc' = "exit0"
    /\ UNCHANGED <<input, fs, idx, data, err, reads, decrypts, runsDone, prev>>

\* what a run that ended leaves to its caller
Outcome == [err |-> err, stdout |-> stdout]

\* the program is run again on the same descriptor, files and oracle
main ==
    /\ pc \in {"exit0", "exit2"}
    /\ runsDone < MaxReruns
    /\ runsDone' = runsDone + 1
    /\ prev' = <<Outcome>>
    /\ pc' = "readInput"
    /\ idx' = 1
    /\ data' = EmptyMap
    /\ err' = NoErr
    /\ stdout' = <<>>
    /\ reads' = <<>>
    /\ decrypts' = <<>>
    /\ UNCHANGED <<input, fs>>

Next == readInput \/ parseEnvSources \/ parseFileSources \/ generateSecret \/ main

-----------------------------------------------------------------------------
(* The inputs of a run *)

\* every sequence over S of length at most n
SeqUpTo(S, n) == UNION {[1..k -> S] : k \in 0..n}

PathEnvA == <<"a", ".", "e", "n", "v">>
PathYamlB == <<"b", ".", "y", "a", "m", "l">>
PathJsonC == <<"c", ".", "j", "s", "o", "n">>
PathEnvBad == <<"b", "a", "d", ".", "e", "n", "v">>
PathBin == <<"d", ".", "b", "i", "n">>
PathJsonBad == <<"f", ".", "j", "s", "o", "n">>
PathYamlPlain == <<"e", ".", "y", "a", "m", "l">>
PathEnvMissing == <<"m", ".", "e", "n", "v">>

\* the files of the runs that vary the descriptor's sources; PathEnvMissing is not among them
Disk ==
    (PathEnvA :> File(<<"A", "=", "1", "\n", "#", "c", "\n", "A", "=", "2", "\n", "B", "=", "3">>, TRUE))
    @@ (PathYamlB :> File(DocYamlAC, TRUE))
    @@ (PathJsonC :> File(DocJsonB, TRUE))
    @@ (PathEnvBad :> File(<<"C", "=", "1", "\n", "o", "o", "p", "s", "\n", "B", "=", "4", "\n">>, TRUE))
    @@ (PathBin :> File(<<"x01", "x02">>, TRUE))
    @@ (PathYamlPlain :> File(DocYamlB, FALSE))
    @@ (PathJsonBad :> File(DocJsonBad, TRUE))

\* the files of Disk at the given paths
DiskOf(paths) == [p \in paths |-> Disk[p]]

\* the envSources entries: three that parse, and one for each way one fails
EnvPaths ==
    {PathEnvA, PathYamlB, PathJsonC, PathEnvBad, PathBin, PathYamlPlain, PathEnvMissing,
     PathJsonBad}

\* the fileSources entries: three that resolve, a malformed one, a missing file, a file not encrypted
FileSpecs ==
    {PathBin, PathYamlB, <<"A", "=", "d", ".", "b", "i", "n">>, <<"A", "=", "b", "=", "c">>, <<"B", "=", "m", ".", "e", "n", "v">>, <<"C", "=", "e", ".", "y", "a", "m", "l">>}

\* a descriptor readInput accepts, with nothing optional set
Generator(envs, files) ==
    [apiVersion |-> apiVersion, kind |-> kind, name |-> "mysecret", namespace |-> "",
     labels |-> EmptyMap, annotations |-> EmptyMap, envs |-> envs, files |-> files,
     behavior |-> "", disableNameSuffixHash |-> FALSE, type |-> ""]

\* the state a first run starts in, given its descriptor file and file system
Start(in, disk) ==
    /\ input = in
    /\ fs = disk
    /\ pc = "readInput"
    /\ idx = 1
    /\ data = EmptyMap
    /\ err = NoErr
    /\ stdout = <<>>
    /\ reads = <<>>
    /\ decrypts = <<>>
    /\ runsDone = 0
    /\ prev = <<>>

\* runs over every list of sources
Init ==
    \E envs \in SeqUpTo(EnvPaths, MaxSources), files \in SeqUpTo(FileSpecs, MaxSources) :
        /\ Len(envs) + Len(files) <= MaxSources
        /\ Start([load |-> "ok", gen |-> Generator(envs, files)],
                 [files |-> Disk, default |-> Absent])

Spec == Init /\ [][Next]_vars

\* the explicit annotations a descriptor may declare
AnnotationMaps ==
    {EmptyMap,
     ("team" :> "a"),
     (NeedsHash :> "false"),
     (BehaviorKey :> "replace"),
     (NeedsHash :> "true") @@ (BehaviorKey :> "create") @@ ("team" :> "a")}

\* runs over every descriptor header, the sources fixed
InitDescriptor ==
    \E load \in {"ok", "unreadable", "malformed"},
       av \in {apiVersion, "v1"}, kd \in {kind, "Secret"}, name \in {"", "mysecret"},
       an \in AnnotationMaps, behavior \in {"", "merge"}, disable \in BOOLEAN :
        Start([load |-> load,
               gen |-> [Generator(<<PathEnvA>>, <<PathBin>>) EXCEPT
                           !.apiVersion = av, !.kind = kd, !.name = name,
                           !.annotations = an, !.behavior = behavior,
                           !.disableNameSuffixHash = disable]],
              [files |-> DiskOf({PathEnvA, PathBin}), default |-> Absent])

SpecDescriptor == InitDescriptor /\ [][Next]_vars

\* what fileSources strings are put together from
SpecParts ==
    {<<"k">>, <<"=">>, <<"/">>, <<".">>, ExtYaml, ExtYml, ExtJson, ExtEnv}

SpecStrings == {Concat(parts) : parts \in SeqUpTo(SpecParts, MaxParts)}

\* runs over every fileSources string; every path but the env source's holds the same file, or none
InitFileNames ==
    \E source \in SpecStrings,
       default \in {Absent, File(<<"x01", "x02">>, TRUE), File(<<"x01">>, FALSE)} :
        Start([load |-> "ok", gen |-> Generator(<<PathYamlB>>, <<source>>)],
              [files |-> DiskOf({PathYamlB}), default |-> default])

SpecFileNames == InitFileNames /\ [][Next]_vars

\* what dotenv plaintexts are put together from
Chunks ==
    {<<"A">>, <<"=">>, <<"#">>, <<" ">>, <<"\n">>, <<"\r">>, <<"xFF">>, <<"xEF", "xBB", "xBF">>}

Plaintexts == {Concat(chunks) : chunks \in SeqUpTo(Chunks, MaxChunks)}

\* runs over every dotenv plaintext, read as an env source and then as a file source
InitDotEnv ==
    \E plain \in Plaintexts :
        Start([load |-> "ok", gen |-> Generator(<<PathEnvA>>, <<PathEnvA>>)],
              [files |-> (PathEnvA :> File(plain, TRUE)), default |-> Absent])

SpecDotEnv == InitDotEnv /\ [][Next]_vars

-----------------------------------------------------------------------------
(* What the claims speak of, said from the inputs alone *)

\* the file a path holds
Stored(path) == IF path \in DOMAIN fs.files THEN fs.files[path] ELSE fs.default

\* how many '=' a string holds
CountEq(s) == Cardinality(Positions(s, "="))

\* the two sides of a string's first '='
LeftOfEq(s) == Take(s, Min(Positions(s, "=")) - 1)

RightOfEq(s) == Drop(s, Min(Positions(s, "=")))

\* the lines of a dotenv plaintext
LinesOf(plain) == ScanLines(SkipOnly(plain))

\* a blank or comment line, whitespace to its left not counted
Skipped(line) == TrimLeftSpace(line) = <<>> \/ TrimLeftSpace(line)[1] = "#"

\* a line that is neither blank nor a comment and has no '='
LacksEq(line) == ~Skipped(line) /\ Positions(line, "=") = {}

\* a line parsing stops at
FailingLine(line) == ~Utf8Valid(line) \/ LacksEq(line)

\* a line that stores an entry
Storing(line) == ~Skipped(line) /\ Positions(line, "=") # {}

\* the entries the first n lines store, each under the text left of its first
\* '=' without the whitespace before it: a later line beats an earlier one
StoredBy(lines, n) ==
    LET keys == {LeftOfEq(TrimLeftSpace(lines[i])) : i \in {j \in 1..n : Storing(lines[j])}}
    IN  [k \in keys |->
            LET last == Max({j \in 1..n : Storing(lines[j]) /\ LeftOfEq(TrimLeftSpace(lines[j])) = k})
            IN  Base64(RightOfEq(lines[last]))]

\* whether a path, declared as an env source, fails
EnvFails(path) ==
    LET f == Stored(path)
        format == formatForPath(path)
    IN  \/ ~f.exists
        \/ ~f.sealed
        \/ format = "binary"
        \/ format = "dotenv" /\ LET lines == LinesOf(f.plain)
                               IN  \E i \in DOMAIN lines : FailingLine(lines[i])
        \/ format = "yaml" /\ YamlUnmarshal(f.plain).err # NoErr
        \/ format = "json" /\ JsonUnmarshal(f.plain).err # NoErr

\* the path a well-formed fileSources string names
PathOf(s) == IF CountEq(s) = 0 THEN s ELSE RightOfEq(s)

\* whether a fileSources string is malformed
BadFileSpec(s) == CountEq(s) > 1 \/ (CountEq(s) = 1 /\ (LeftOfEq(s) = <<>> \/ RightOfEq(s) = <<>>))

\* whether a string, declared as a file source, fails
FileFails(s) == BadFileSpec(s) \/ ~Stored(PathOf(s)).exists \/ ~Stored(PathOf(s)).sealed

\* whether the source at position p fails
SourceFails(p) == IF IsEnvPos(p) THEN EnvFails(SourceAt(p)) ELSE FileFails(SourceAt(p))

FailingSources == {p \in 1..NumSources : SourceFails(p)}

\* the map a source yields by itself: key -> raw value
Yield(p) ==
    LET source == SourceAt(p)
        format == formatForPath(source)
    IN  IF ~IsEnvPos(p)
        THEN ((IF CountEq(source) = 0 THEN Base(source) ELSE LeftOfEq(source))
                 :> Stored(PathOf(source)).plain)
        ELSE IF format = "yaml" THEN YamlUnmarshal(Stored(source).plain).d
        ELSE IF format = "json" THEN JsonUnmarshal(Stored(source).plain).d
        ELSE LET lines == LinesOf(Stored(source).plain)
                 keys == {LeftOfEq(TrimLeftSpace(lines[i])) : i \in {j \in DOMAIN lines : Storing(lines[j])}}
             IN  [k \in keys |->
                    RightOfEq(lines[Max({j \in DOMAIN lines :
                        Storing(lines[j]) /\ LeftOfEq(TrimLeftSpace(lines[j])) = k})])]

\* the run has ended
Ended == pc \in {"exit0", "exit2"}

-----------------------------------------------------------------------------
(* C1 - last write wins: a run that succeeds prints, for every key some     *)
(* source yields, the base64 of the value of the last source in processing  *)
(* order (envSources, then fileSources) that yields the key; a run whose    *)
(* sources each succeed alone never fails, whatever keys they share.        *)
C1_LastWriteWins ==
    /\ pc = "exit0" =>
        \A p \in 1..NumSources : \A k \in DOMAIN Yield(p) :
            LET last == Max({q \in 1..NumSources : k \in DOMAIN Yield(q)})
            IN  /\ k \in DOMAIN stdout[1].data
                /\ stdout[1].data[k] = Base64(Yield(last)[k])
    /\ pc = "exit2" => FailingSources # {}

\* a key three sources yield: two env sources, then a file source that wins
C1_Witness ==
    /\ pc = "exit0"
    /\ input.gen.envs = <<PathEnvA, PathYamlB>>
    /\ input.gen.files = <<<<"A", "=", "d", ".", "b", "i", "n">>>>
    /\ stdout[1].data[<<"A">>] = <<"A", "Q", "I", "=">>
    /\ stdout[1].data[<<"B">>] = <<"M", "w", "=", "=">>

-----------------------------------------------------------------------------
(* C2 - the first failure aborts the run: nothing is read or decrypted for  *)
(* a source declared after the first failing one, a run with a failing      *)
(* source ends in an error and never prints a manifest.                     *)
C2_FirstFailureAborts ==
    LET failing == FailingSources
        first == Min(failing)
    IN  failing # {} =>
            /\ \A i \in DOMAIN reads : reads[i].pos <= first
            /\ \A i \in DOMAIN decrypts : decrypts[i].pos <= first
            /\ stdout = <<>>
            /\ pc # "exit0"
            /\ pc = "exit2" => err # NoErr /\ idx = first

\* a run that failed at its second source of three, with an entry already merged
C2_Witness ==
    /\ pc = "exit2"
    /\ NumSources = 3
    /\ Min(FailingSources) = 2
    /\ data # EmptyMap
    /\ Len(reads) = 2

-----------------------------------------------------------------------------
(* C7 - determinism: a second run on the same descriptor, files and oracle  *)
(* ends as the first did: both fail, or both print the same data map.       *)
C7_Deterministic ==
    (Ended /\ prev # <<>>) =>
        /\ (err = NoErr) <=> (prev[1].err = NoErr)
        /\ (stdout = <<>>) <=> (prev[1].stdout = <<>>)
        /\ stdout # <<>> => stdout[1].data = prev[1].stdout[1].data

\* a second run that merged a YAML mapping and a JSON mapping of two entries each
C7_Witness ==
    /\ pc = "exit0"
    /\ prev # <<>>
    /\ input.gen.envs = <<PathJsonC, PathYamlB>>
    /\ Cardinality(DOMAIN stdout[1].data) = 4

-----------------------------------------------------------------------------
(* C9 - binary asymmetry: an env source classified binary ends the run and  *)
(* leaves the map as it was, with the format error once it was read and     *)
(* decrypted; a file source of any format that is read and decrypted puts   *)
(* exactly one entry in the map, the base64 of its whole payload.           *)
C9_BinaryAsymmetry ==
    [][/\ (pc = "parseEnvSources" /\ formatForPath(SourceAt(idx)) = "binary") =>
            /\ pc' = "exit2"
            /\ data' = data
            /\ (Stored(SourceAt(idx)).exists /\ Stored(SourceAt(idx)).sealed) =>
                    Cause(err') = "unknown file format, use dotenv, yaml or json"
       /\ (/\ pc = "parseFileSources"
           /\ ~BadFileSpec(SourceAt(idx))
           /\ Stored(PathOf(SourceAt(idx))).exists
           /\ Stored(PathOf(SourceAt(idx))).sealed) =>
            LET key == IF CountEq(SourceAt(idx)) = 0 THEN Base(SourceAt(idx))
                       ELSE LeftOfEq(SourceAt(idx))
            IN  /\ pc' # "exit2"
                /\ DOMAIN data' = DOMAIN data \cup {key}
                /\ data'[key] = Base64(Stored(PathOf(SourceAt(idx))).plain)
                /\ \A k \in DOMAIN data \ {key} : data'[k] = data[k]
      ]_vars

\* the same binary file: refused as the second env source
C9_Witness ==
    /\ pc = "exit2"
    /\ input.gen.envs = <<PathYamlB, PathBin>>
    /\ Cause(err) = "unknown file format, use dotenv, yaml or json"
    /\ DOMAIN data = {<<"A">>, <<"C">>}
    /\ Len(decrypts) = 2

-----------------------------------------------------------------------------
(* C3 - rejection precedes source access: a descriptor whose apiVersion or  *)
(* kind is not the expected one, or whose name is empty, ends the run with  *)
(* the validation error; no source is read, the oracle is never called.     *)
Rejected ==
    /\ input.load = "ok"
    /\ input.gen.apiVersion # apiVersion \/ input.gen.kind # kind \/ input.gen.name = ""

C3_RejectionFirst ==
    Rejected =>
        /\ reads = <<>>
        /\ decrypts = <<>>
        /\ stdout = <<>>
        /\ data = EmptyMap
        /\ pc \in {"readInput", "exit2"}
        /\ pc = "exit2" =>
            Cause(err) = IF input.gen.apiVersion # apiVersion \/ input.gen.kind # kind
                         THEN "input must be apiVersion %s, kind %s"
                         ELSE "input must contain metadata.name value"

\* a descriptor of the right type without a name, with sources, rejected
C3_Witness ==
    /\ pc = "exit2"
    /\ input.load = "ok"
    /\ input.gen.apiVersion = apiVersion
    /\ input.gen.kind = kind
    /\ input.gen.name = ""
    /\ input.gen.envs # <<>>
    /\ input.gen.files # <<>>
    /\ Cause(err) = "input must contain metadata.name value"

-----------------------------------------------------------------------------
(* C6 as stated - annotation policy: the printed annotations hold           *)
(* needs-hash = "true" when disableNameSuffixHash is false and no           *)
(* needs-hash key at all when it is true, whatever the descriptor declares; *)
(* behavior = <value> when behavior is not empty; every other declared      *)
(* annotation unchanged.                                                    *)
C6_AsStated ==
    pc = "exit0" =>
        LET out == stdout[1].annotations
            gen == input.gen
        IN  /\ ~gen.disableNameSuffixHash =>
                    NeedsHash \in DOMAIN out /\ out[NeedsHash] = "true"
            /\ gen.disableNameSuffixHash => NeedsHash \notin DOMAIN out
            /\ gen.behavior # "" => BehaviorKey \in DOMAIN out /\ out[BehaviorKey] = gen.behavior
            /\ \A k \in DOMAIN gen.annotations \ {NeedsHash, BehaviorKey} :
                    k \in DOMAIN out /\ out[k] = gen.annotations[k]

(* C6 as amended - with disableNameSuffixHash true the assembler adds no    *)
(* needs-hash annotation: the key is printed only if the descriptor         *)
(* declares it, and then with the declared value. The rest is as stated.    *)
C6_AnnotationPolicy ==
    pc = "exit0" =>
        LET out == stdout[1].annotations
            gen == input.gen
        IN  /\ ~gen.disableNameSuffixHash =>
                    NeedsHash \in DOMAIN out /\ out[NeedsHash] = "true"
            /\ gen.disableNameSuffixHash =>
                    /\ NeedsHash \in DOMAIN out <=> NeedsHash \in DOMAIN gen.annotations
                    /\ NeedsHash \in DOMAIN out => out[NeedsHash] = gen.annotations[NeedsHash]
            /\ gen.behavior # "" => BehaviorKey \in DOMAIN out /\ out[BehaviorKey] = gen.behavior
            /\ \A k \in DOMAIN gen.annotations \ {NeedsHash, BehaviorKey} :
                    k \in DOMAIN out /\ out[k] = gen.annotations[k]

\* the hash suffix disabled, a behavior set, needs-hash and behavior declared
C6_Witness ==
    /\ pc = "exit0"
    /\ input.gen.disableNameSuffixHash
    /\ input.gen.behavior = "merge"
    /\ input.gen.annotations = (NeedsHash :> "true") @@ (BehaviorKey :> "create") @@ ("team" :> "a")
    /\ stdout[1].annotations = (NeedsHash :> "true") @@ (BehaviorKey :> "merge") @@ ("team" :> "a")

-----------------------------------------------------------------------------
(* C4 - single-file specification parsing, n the number of '=' in the       *)
(* string: with n = 0 the path read is the string and the key its base      *)
(* filename; with n = 1 and two non-empty sides the key is the left side    *)
(* and the path read the right side; with n = 1 and an empty side the       *)
(* error names the missing side; with n > 1 it is always an error; and an   *)
(* error of the specification reads, decrypts and stores nothing.           *)

\* k is the last element of path s: what follows the last '/' once trailing
\* '/' are dropped ("." for the empty path, "/" for a path of '/' only)
IsBaseOf(k, s) ==
    LET t == TrimRightByte(s, "/")
    IN  IF s = <<>> THEN k = <<".">>
        ELSE IF t = <<>> THEN k = <<"/">>
        ELSE /\ k # <<>>
             /\ Positions(k, "/") = {}
             /\ HasSuffix(t, k)
             /\ Len(k) = Len(t) \/ t[Len(t) - Len(k)] = "/"

\* the step reads this path, and only this one
ReadsOnly(path) == reads' = Append(reads, [pos |-> idx, call |-> path])

\* the step ends the run with this error, having read, decrypted and stored nothing
FailsUntouched(msg, text) ==
    /\ pc' = "exit2"
    /\ Cause(err') = msg
    /\ err'[Len(err')].text = text
    /\ reads' = reads
    /\ decrypts' = decrypts
    /\ data' = data

C4_FileNameParsing ==
    [][pc = "parseFileSources" =>
        LET s == SourceAt(idx)
            n == CountEq(s)
        IN  /\ n = 0 =>
                /\ ReadsOnly(s)
                /\ pc' # "exit2" =>
                    \E k \in DOMAIN data' :
                        /\ IsBaseOf(k, s)
                        /\ DOMAIN data' = DOMAIN data \cup {k}
                        /\ data'[k] = Base64(Stored(s).plain)
            /\ (n = 1 /\ LeftOfEq(s) # <<>> /\ RightOfEq(s) # <<>>) =>
                /\ ReadsOnly(RightOfEq(s))
                /\ pc' # "exit2" =>
                    /\ DOMAIN data' = DOMAIN data \cup {LeftOfEq(s)}
                    /\ data'[LeftOfEq(s)] = Base64(Stored(RightOfEq(s)).plain)
            /\ (n = 1 /\ LeftOfEq(s) = <<>>) =>
                FailsUntouched("key name for file path %v missing", RightOfEq(s))
            /\ (n = 1 /\ LeftOfEq(s) # <<>> /\ RightOfEq(s) = <<>>) =>
                FailsUntouched("file path for key name %v missing", LeftOfEq(s))
            /\ n > 1 => FailsUntouched("key names or file paths cannot contain '='", <<>>)
      ]_vars

\* "/=.env": the key is "/", the file read is ".env"
C4_Witness ==
    /\ pc = "exit0"
    /\ input.gen.files = <<<<"/", "=", ".", "e", "n", "v">>>>
    /\ reads[2].call = <<".", "e", "n", "v">>
    /\ stdout[1].data[<<"/">>] = <<"A", "Q", "I", "=">>

-----------------------------------------------------------------------------
(* C10 - for a fileSources string that parses, the format handed to the     *)
(* oracle, which is computed from the whole [key=]path string, is the       *)
(* format of the path alone, and the content handed over is that path's.    *)
C10_HintIsOfPath ==
    \A i \in DOMAIN decrypts :
        ~IsEnvPos(decrypts[i].pos) =>
            /\ ~BadFileSpec(SourceAt(decrypts[i].pos))
            /\ decrypts[i].call.path = PathOf(SourceAt(decrypts[i].pos))
            /\ decrypts[i].call.format = formatForPath(PathOf(SourceAt(decrypts[i].pos)))

\* ".json=.yaml": a key that ends like a JSON file, a path that is a YAML file
C10_Witness ==
    /\ input.gen.files = <<<<".", "j", "s", "o", "n", "=", ".", "y", "a", "m", "l">>>>
    /\ Len(decrypts) = 2
    /\ decrypts[2].call = [path |-> <<".", "y", "a", "m", "l">>, format |-> "yaml"]

-----------------------------------------------------------------------------
(* The dotenv claims are read off the state the env source leaves: the map  *)
(* holds what its lines stored, err what parseEnvSources returned.          *)

\* the one env source of the run has just been resolved
AfterEnv == (pc = "parseFileSources" /\ idx = 2) \/ (pc = "exit2" /\ idx = 1)

\* the dotenv plaintext of the run, and its lines
Plain == Stored(PathEnvA).plain

Lines == LinesOf(Plain)

\* the 0-based line number the error carries
ErrLine == err[2].num

(* C5 as stated, for plaintexts whose lines are all valid UTF-8, a line of  *)
(* whitespace taken as empty: blank and comment lines store nothing; the    *)
(* first other line without '=' fails the parse with its 0-based index      *)
(* over all lines; every other line stores base64(text after its first      *)
(* '=') under the text before its first '='.                                *)
C5_AsStated ==
    (AfterEnv /\ \A i \in DOMAIN Lines : Utf8Valid(Lines[i])) =>
        LET bad == {i \in DOMAIN Lines : LacksEq(Lines[i])}
            n == IF bad = {} THEN Len(Lines) ELSE Min(bad) - 1
            storing == {j \in 1..n : Storing(Lines[j])}
            raw == [k \in {LeftOfEq(Lines[i]) : i \in storing} |->
                        LET last == Max({j \in storing : LeftOfEq(Lines[j]) = k})
                        IN  Base64(RightOfEq(Lines[last]))]
        IN  /\ bad = {} => pc # "exit2"
            /\ bad # {} => pc = "exit2" /\ err[2].msg = "line %d" /\ ErrLine = Min(bad) - 1
            /\ data = raw

(* C5 as amended - the key is the text before the first '=' without the     *)
(* whitespace that leads the line, and a line that is not valid UTF-8       *)
(* fails the parse like one without '=': the parse fails at the first line  *)
(* that is invalid UTF-8 or is neither blank nor comment and has no '=',    *)
(* with that line's 0-based index over all lines; blank and comment lines   *)
(* store nothing; every other line before the failure stores base64(text    *)
(* after its first '=') under the left-trimmed text before it.              *)
C5_DotEnvLines ==
    AfterEnv =>
        LET fail == {i \in DOMAIN Lines : FailingLine(Lines[i])}
            n == IF fail = {} THEN Len(Lines) ELSE Min(fail) - 1
        IN  /\ fail = {} => pc # "exit2" /\ err = NoErr
            /\ fail # {} =>
                /\ pc = "exit2"
                /\ err[2].msg = "line %d"
                /\ ErrLine = Min(fail) - 1
                /\ Cause(err) = IF Utf8Valid(Lines[Min(fail)]) THEN "requires value: %v"
                                ELSE "invalid utf8 sequence"
            /\ data = StoredBy(Lines, n)

\* " =" stores the empty value under the empty key, not under " "; then "A" fails as line 1
C5_Witness ==
    /\ pc = "exit2"
    /\ Lines = << <<" ", "=">>, <<"A">> >>
    /\ ErrLine = 1
    /\ Cause(err) = "requires value: %v"
    /\ data = (<<>> :> <<>>)

-----------------------------------------------------------------------------
(* C8 as stated - a dotenv plaintext with an invalid UTF-8 sequence         *)
(* anywhere fails with the invalid-UTF-8 error before any line is split or  *)
(* any entry stored, whatever the other lines hold.                         *)
C8_AsStated ==
    (AfterEnv /\ ~Utf8Valid(Plain)) =>
        /\ pc = "exit2"
        /\ Cause(err) = "invalid utf8 sequence"
        /\ data = EmptyMap

(* C8 as amended - validation is per line, as each line is taken up: a      *)
(* plaintext with a line that is not valid UTF-8 always fails to parse and  *)
(* stores nothing from that line or a later one; the error is the           *)
(* invalid-UTF-8 error with that line's index, a comment line included,     *)
(* unless an earlier line lacks '=', whose error it then is; the lines      *)
(* before the failing one have been split and their entries stored.         *)
C8_Utf8PerLine ==
    (AfterEnv /\ \E i \in DOMAIN Lines : ~Utf8Valid(Lines[i])) =>
        LET first == Min({i \in DOMAIN Lines : ~Utf8Valid(Lines[i])})
            earlier == {i \in 1..(first - 1) : LacksEq(Lines[i])}
            stop == IF earlier = {} THEN first ELSE Min(earlier)
        IN  /\ pc = "exit2"
            /\ ErrLine = stop - 1
            /\ Cause(err) = IF earlier = {} THEN "invalid utf8 sequence" ELSE "requires value: %v"
            /\ DOMAIN data =
                {LeftOfEq(TrimLeftSpace(Lines[i])) : i \in {j \in 1..(stop - 1) : Storing(Lines[j])}}

\* "A=" is stored, then a line with an invalid byte fails as line 1
C8_Witness ==
    /\ pc = "exit2"
    /\ Lines = << <<"A", "=">>, <<"xFF">> >>
    /\ ErrLine = 1
    /\ Cause(err) = "invalid utf8 sequence"
    /\ data = (<<"A">> :> <<>>)

=============================================================================
